---- MODULE Spec2Model ----
(***************************************************************************)
(* A model of thue.py, a small Thue interpreter.                           *)
(*                                                                         *)
(* A text (a Python str) is a sequence of one-character strings.  Offsets  *)
(* are 0-based, as in the source.  A file and standard input are sequences *)
(* of lines, each line still carrying its line end "\n".                   *)
(***************************************************************************)
EXTENDS Integers, Sequences, FiniteSets, TLC

VARIABLES
    pc,          \* where the program is: read_program, read_rulebase,
                 \* read_init, execute, done, error, aborted; "call" for a
                 \* single function under test
    readable,    \* whether open(filename) succeeds
    file,        \* the lines of the program file
    pos,         \* lines of file consumed by the file iterator
    lineno,      \* read_rulebase's lineno
    rulebase,    \* the list of Rule objects
    init_str,    \* read_program's init_str
    string,      \* execute's string
    is_verbose,  \* execute's is_verbose
    stdin,       \* the lines of standard input
    stdin_pos,   \* lines of standard input consumed
    stdout,      \* the writes to standard output, in order
    stderr,      \* the writes to the error stream, in order
    exit_code,   \* process exit status, -1 while running
    \* history of the current call of execute
    init_string, \* the string execute was called with
    steps,       \* loop iterations that applied a rule
    last,        \* the last loop iteration: rule, offset, state before it
    n_input,     \* applications of an input rule that received a line
    emitted,     \* texts written by output rules, in order
    run,         \* calls of execute so far
    call         \* a single function call under test and its result

vars == <<pc, readable, file, pos, lineno, rulebase, init_str, string,
          is_verbose, stdin, stdin_pos, stdout, stderr, exit_code,
          init_string, steps, last, n_input, emitted, run, call>>

loadVars == <<readable, file, pos, lineno, init_str>>
histVars == <<init_string, steps, last, n_input, emitted, run>>

-----------------------------------------------------------------------------
(* Bounds of the model *)

MaxLen == 2        \* length of the string execute is called with
MaxRules == 2      \* rules in a rulebase execute is called with
MaxInput == 1      \* lines on standard input
MaxStrLen == 3     \* the string is not grown beyond this length
MaxRuns == 2       \* calls of execute in a row
MaxSteps == 3      \* loop iterations in one call of execute
MaxLines == 3      \* lines in a program file
MaxPat == 2        \* length of a left-hand side handed to Rule, of a
                   \* substr handed to find_occurences
MaxFnLen == 4      \* length of a string handed to a single function
MaxIter == MaxFnLen + 1   \* iterations of find_occurences's loop followed

-----------------------------------------------------------------------------
(* Python's str operations *)

\* s[lo:hi] for 0 <= lo, hi
Slice(s, lo, hi) == SubSeq(s, lo + 1, hi)

\* sub is in s at 0-based index i
IsAt(s, sub, i) ==
    /\ i + Len(sub) <= Len(s)
    /\ SubSeq(s, i + 1, i + Len(sub)) = sub

\* s.find(sub): the lowest index where sub is in s, -1 when there is none
find(s, sub) ==
    IF \E i \in 0..Len(s) : IsAt(s, sub, i)
    THEN CHOOSE i \in 0..Len(s) :
            /\ IsAt(s, sub, i)
            /\ \A j \in 0..(i - 1) : ~IsAt(s, sub, j)
    ELSE -1

Whitespace == {" ", "\n", "\t"}

\* A strip of the line ending only
rstrip_NewlineOnly(line) ==
    IF line # <<>> /\ line[Len(line)] = "\n"
    THEN SubSeq(line, 1, Len(line) - 1)
    ELSE line

\* line.rstrip(): trailing whitespace removed
RECURSIVE rstrip(_)
rstrip(line) ==
    IF line # <<>> /\ line[Len(line)] \in Whitespace
    THEN rstrip(SubSeq(line, 1, Len(line) - 1))
    ELSE line

\* A line as input() returns it: without its line end
input_line(line) ==
    IF line # <<>> /\ line[Len(line)] = "\n"
    THEN SubSeq(line, 1, Len(line) - 1)
    ELSE line

\* input() that never advances: always the first line
input_FirstLine(lines, consumed) == input_line(lines[1])

\* input() with `consumed` lines of standard input read before
input(lines, consumed) == input_line(lines[consumed + 1])

-----------------------------------------------------------------------------
(* class Rule *)

\* Rule.__init__: stores both sides as given
Rule(lhs, rhs) == [lhs |-> lhs, rhs |-> rhs]

-----------------------------------------------------------------------------
(* applicable_rules, find_occurences, apply *)

\* applicable_rules that overlooks the last rule of the rulebase
applicable_rules_SkipLast(rb, s) ==
    SelectSeq(SubSeq(rb, 1, Len(rb) - 1), LAMBDA rule : find(s, rule.lhs) # -1)

\* applicable_rules that adds a rule only if an equal one is not yet in ret
applicable_rules_Dedup(rb, s) ==
    LET idx == {k \in 1..Len(rb) :
                  /\ find(s, rb[k].lhs) # -1
                  /\ \A j \in 1..(k - 1) : rb[j] # rb[k]}
        ret[n \in 0..Len(rb)] ==
            IF n = 0 THEN <<>>
            ELSE IF n \in idx THEN Append(ret[n - 1], rb[n]) ELSE ret[n - 1]
    IN ret[Len(rb)]

\* applicable_rules(rulebase, s)
applicable_rules(rb, s) ==
    SelectSeq(rb, LAMBDA rule : find(s, rule.lhs) # -1)

\* The while loop of find_occurences; substr is not empty.
RECURSIVE find_occurences_loop(_, _, _, _)
find_occurences_loop(s, substr, offset, occurences) ==
    LET i == find(s, substr) IN
    IF i # -1
    THEN find_occurences_loop(Slice(s, i + Len(substr), Len(s)), substr,
                              offset + i + Len(substr),
                              Append(occurences, i + offset))
    ELSE occurences

\* find_occurences without an occurrence at the start of s
find_occurences_NotAtStart(s, substr) ==
    SelectSeq(find_occurences_loop(s, substr, 0, <<>>), LAMBDA i : i # 0)

\* find_occurences(s, substr)
find_occurences(s, substr) == find_occurences_loop(s, substr, 0, <<>>)

\* left that keeps the first character of the occurrence
left_Inclusive(s, i) == Slice(s, 0, i + 1)

\* apply's left and right
left(s, i) == Slice(s, 0, i)

\* right that starts at the occurrence instead of after it
right_KeepMatch(s, i, rule) == Slice(s, i, Len(s))

right(s, i, rule) == Slice(s, i + Len(rule.lhs), Len(s))

\* An input test that looks for ":::" anywhere in the rhs
IsInput_Anywhere(rule) ==
    \E k \in 0..Len(rule.rhs) : IsAt(rule.rhs, <<":", ":", ":">>, k)

\* The branch of apply a rule takes
IsInput(rule) == rule.rhs = <<":", ":", ":">>

IsOutput(rule) == ~IsInput(rule) /\ rule.rhs # <<>> /\ rule.rhs[1] = "~"

IsVanilla(rule) == ~IsInput(rule) /\ ~IsOutput(rule)

\* The printed text with the "~" left on
output_text_WithTilde(rule) == rule.rhs

\* rule.rhs[1:], the text an output rule prints
output_text(rule) == Tail(rule.rhs)

\* One write to standard output, by print without flush
Write(op, text) == [op |-> op, text |-> text, flush |-> FALSE]

\* A write left in the buffer
Flush_Deferred(w) == w

\* print(..., flush=True)
Flush(w) == [w EXCEPT !.flush = TRUE]

\* The part of the loop body before apply: the trace line
traced(out, s) ==
    IF is_verbose THEN Append(out, Write("trace", s)) ELSE out

NoLast == [rule |-> Rule(<<>>, <<>>), i |-> 0, before |-> <<>>,
           stdin_pos |-> 0, stdout |-> <<>>]

Last(r, i) ==
    [rule |-> r, i |-> i, before |-> string, stdin_pos |-> stdin_pos,
     stdout |-> stdout]

\* apply, rule.rhs == ':::', input() returns a line
ApplyInput(r, i) ==
    /\ IsInput(r)
    /\ stdin_pos < Len(stdin)
    /\ LET in_between == input(stdin, stdin_pos)
           new == left(string, i) \o in_between \o right(string, i, r)
       IN /\ (Len(new) <= Len(string) \/ Len(new) <= MaxStrLen)
          /\ string' = new
    /\ stdin_pos' = stdin_pos + 1
    /\ stdout' = traced(stdout, string)
    /\ n_input' = n_input + 1
    /\ steps' = steps + 1
    /\ last' = Last(r, i)
    /\ UNCHANGED <<pc, stderr, exit_code, emitted>>

\* End of input taken as an empty line, the run going on
ApplyInputEOF_EmptyLine(r, i) ==
    /\ IsInput(r)
    /\ stdin_pos >= Len(stdin)
    /\ string' = left(string, i) \o <<>> \o right(string, i, r)
    /\ stdout' = traced(stdout, string)
    /\ steps' = steps + 1
    /\ last' = Last(r, i)
    /\ UNCHANGED <<pc, stderr, exit_code, stdin_pos, n_input, emitted>>

\* apply, rule.rhs == ':::', input() raises EOFError, which nothing catches
ApplyInputEOF(r, i) ==
    /\ IsInput(r)
    /\ stdin_pos >= Len(stdin)
    /\ pc' = "aborted"
    /\ exit_code' = 1
    /\ stderr' = Append(stderr, [msg |-> "EOFError", lineno |-> -1])
    /\ stdout' = traced(stdout, string)
    /\ last' = Last(r, i)
    /\ UNCHANGED <<string, stdin_pos, n_input, steps, emitted>>

\* apply for an output rule with the trace line printed after the text
ApplyOutput_TraceAfter(r, i) ==
    /\ IsOutput(r)
    /\ string' = left(string, i) \o <<>> \o right(string, i, r)
    /\ stdout' = traced(Append(stdout, Flush(Write("rule", output_text(r)))),
                        string)
    /\ emitted' = Append(emitted, output_text(r))
    /\ steps' = steps + 1
    /\ last' = Last(r, i)
    /\ UNCHANGED <<pc, stderr, exit_code, stdin_pos, n_input>>

\* apply, an output rule
ApplyOutput(r, i) ==
    /\ IsOutput(r)
    /\ string' = left(string, i) \o <<>> \o right(string, i, r)
    /\ stdout' = Append(traced(stdout, string),
                        Flush(Write("rule", output_text(r))))
    /\ emitted' = Append(emitted, output_text(r))
    /\ steps' = steps + 1
    /\ last' = Last(r, i)
    /\ UNCHANGED <<pc, stderr, exit_code, stdin_pos, n_input>>

\* apply, a vanilla rule
ApplyVanilla(r, i) ==
    /\ IsVanilla(r)
    /\ LET new == left(string, i) \o r.rhs \o right(string, i, r)
       IN /\ (Len(new) <= Len(string) \/ Len(new) <= MaxStrLen)
          /\ string' = new
    /\ stdout' = traced(stdout, string)
    /\ steps' = steps + 1
    /\ last' = Last(r, i)
    /\ UNCHANGED <<pc, stderr, exit_code, stdin_pos, n_input, emitted>>

\* apply, random.choice(occurences) raises IndexError on an empty list,
\* which nothing catches
ApplyIndexError(r) ==
    /\ pc' = "aborted"
    /\ exit_code' = 1
    /\ stderr' = Append(stderr, [msg |-> "IndexError", lineno |-> -1])
    /\ stdout' = traced(stdout, string)
    /\ UNCHANGED <<string, stdin_pos, n_input, steps, emitted, last>>

\* One iteration of execute's loop with rule r chosen and offset i chosen
LoopBody(r, i) ==
    \/ ApplyInput(r, i)
    \/ ApplyInputEOF(r, i)
    \/ ApplyOutput(r, i)
    \/ ApplyVanilla(r, i)

\* execute: the loop condition holds; random.choice(rules), then apply with
\* random.choice(occurences)
ExecuteStep ==
    /\ pc = "execute"
    /\ steps < MaxSteps
    /\ LET rules == applicable_rules(rulebase, string) IN
       /\ rules # <<>>
       /\ \E k \in 1..Len(rules) :
            LET occurences == find_occurences(string, rules[k].lhs) IN
            IF occurences = <<>>
            THEN ApplyIndexError(rules[k])
            ELSE \E n \in 1..Len(occurences) :
                    LoopBody(rules[k], occurences[n])
    /\ UNCHANGED <<rulebase, is_verbose, stdin, init_string, run, call>>
    /\ UNCHANGED loadVars

\* The trace line written before the loop condition is looked at
ExecuteHalt_TraceFirst ==
    /\ pc = "execute"
    /\ applicable_rules(rulebase, string) = <<>>
    /\ stdout' = Append(traced(stdout, string), Write("final", string))
    /\ pc' = "done"
    /\ exit_code' = 0
    /\ UNCHANGED <<rulebase, string, is_verbose, stdin, stdin_pos, stderr,
                   call>>
    /\ UNCHANGED histVars
    /\ UNCHANGED loadVars

\* execute: the loop condition fails; print(string), and the program ends
ExecuteHalt ==
    /\ pc = "execute"
    /\ applicable_rules(rulebase, string) = <<>>
    /\ stdout' = Append(stdout, Write("final", string))
    /\ pc' = "done"
    /\ exit_code' = 0
    /\ UNCHANGED <<rulebase, string, is_verbose, stdin, stdin_pos, stderr,
                   call>>
    /\ UNCHANGED histVars
    /\ UNCHANGED loadVars

\* execute called again, with the same rulebase, on the string it ended with
Reexecute ==
    /\ pc = "done"
    /\ run < MaxRuns
    /\ pc' = "execute"
    /\ run' = run + 1
    /\ init_string' = string
    /\ steps' = 0
    /\ last' = NoLast
    /\ n_input' = 0
    /\ emitted' = <<>>
    /\ stdout' = <<>>
    /\ stdin' = SubSeq(stdin, stdin_pos + 1, Len(stdin))
    /\ stdin_pos' = 0
    /\ exit_code' = -1
    /\ UNCHANGED <<rulebase, string, is_verbose, stderr, call>>
    /\ UNCHANGED loadVars

-----------------------------------------------------------------------------
(* read_program, read_rulebase, error *)

Sep == <<":", ":", "=">>

\* A match whose first group is not greedy: it ends at the first "::="
re_match_First(line) ==
    LET at == {k \in 0..Len(line) : IsAt(line, Sep, k)} IN
    IF at = {} THEN <<>>
    ELSE LET k == CHOOSE x \in at : \A y \in at : x <= y
         IN <<Slice(line, 0, k), Slice(line, k + Len(Sep), Len(line))>>

\* re.match(r'(.*)::=(.*)', line) on a line without a line end: no match,
\* <<>>, when "::=" is not in the line; otherwise m.groups(). The first
\* group is greedy: it ends at the last "::=" of the line.
re_match(line) ==
    LET at == {k \in 0..Len(line) : IsAt(line, Sep, k)} IN
    IF at = {} THEN <<>>
    ELSE LET k == CHOOSE x \in at : \A y \in at : y <= x
         IN <<Slice(line, 0, k), Slice(line, k + Len(Sep), Len(line))>>

\* line.isspace()
isspace(line) ==
    line # <<>> /\ \A k \in 1..Len(line) : line[k] \in Whitespace

\* error(msg, lineno): the message on the error stream, then exit(1)
error(msg, n) ==
    /\ stderr' = Append(stderr, [msg |-> msg, lineno |-> n])
    /\ exit_code' = 1
    /\ pc' = "error"

\* read_program: open(filename)
OpenFile ==
    /\ pc = "read_program"
    /\ IF readable
       THEN pc' = "read_rulebase" /\ UNCHANGED <<stderr, exit_code>>
       ELSE error("could not open", -1)
    /\ UNCHANGED <<readable, file, pos, lineno, rulebase, init_str, string,
                   is_verbose, stdin, stdin_pos, stdout, call>>
    /\ UNCHANGED histVars

\* read_rulebase with the line count increased only after non-blank lines
ReadRulebaseLine_BlankUncounted ==
    /\ pc = "read_rulebase"
    /\ pos < Len(file)
    /\ pos' = pos + 1
    /\ LET line == rstrip(file[pos + 1])
           m == re_match(line)
       IN IF line = <<>> \/ isspace(line)
          THEN UNCHANGED <<lineno, pc, rulebase, stderr, exit_code>>
          ELSE IF m # <<>>
          THEN IF m[1] = <<>>
               THEN /\ pc' = "read_init"
                    /\ UNCHANGED <<lineno, rulebase, stderr, exit_code>>
               ELSE /\ rulebase' = Append(rulebase, Rule(m[1], m[2]))
                    /\ lineno' = lineno + 1
                    /\ UNCHANGED <<pc, stderr, exit_code>>
          ELSE /\ error("Expected <lhs> ::= <rhs>", lineno)
               /\ UNCHANGED <<lineno, rulebase>>
    /\ UNCHANGED <<readable, file, init_str, string, is_verbose, stdin,
                   stdin_pos, stdout, call>>
    /\ UNCHANGED histVars

\* read_rulebase with the rule added before the test that ends the rulebase
ReadRulebaseLine_AppendFirst ==
    /\ pc = "read_rulebase"
    /\ pos < Len(file)
    /\ pos' = pos + 1
    /\ LET line == rstrip(file[pos + 1])
           m == re_match(line)
       IN IF line = <<>> \/ isspace(line)
          THEN /\ lineno' = lineno + 1
               /\ UNCHANGED <<pc, rulebase, stderr, exit_code>>
          ELSE IF m # <<>>
          THEN IF m[1] = <<>>
               THEN /\ rulebase' = Append(rulebase, Rule(m[1], m[2]))
                    /\ pc' = "read_init"
                    /\ UNCHANGED <<lineno, stderr, exit_code>>
               ELSE /\ rulebase' = Append(rulebase, Rule(m[1], m[2]))
                    /\ lineno' = lineno + 1
                    /\ UNCHANGED <<pc, stderr, exit_code>>
          ELSE /\ error("Expected <lhs> ::= <rhs>", lineno)
               /\ UNCHANGED <<lineno, rulebase>>
    /\ UNCHANGED <<readable, file, init_str, string, is_verbose, stdin,
                   stdin_pos, stdout, call>>
    /\ UNCHANGED histVars

\* read_rulebase: one iteration of its loop over the lines of the file
ReadRulebaseLine ==
    /\ pc = "read_rulebase"
    /\ pos < Len(file)
    /\ pos' = pos + 1
    /\ LET line == rstrip(file[pos + 1])
           m == re_match(line)
       IN IF line = <<>> \/ isspace(line)
          THEN /\ lineno' = lineno + 1
               /\ UNCHANGED <<pc, rulebase, stderr, exit_code>>
          ELSE IF m # <<>>
          THEN IF m[1] = <<>>
               THEN /\ pc' = "read_init"
                    /\ UNCHANGED <<lineno, rulebase, stderr, exit_code>>
               ELSE /\ rulebase' = Append(rulebase, Rule(m[1], m[2]))
                    /\ lineno' = lineno + 1
                    /\ UNCHANGED <<pc, stderr, exit_code>>
          ELSE /\ error("Expected <lhs> ::= <rhs>", lineno)
               /\ UNCHANGED <<lineno, rulebase>>
    /\ UNCHANGED <<readable, file, init_str, string, is_verbose, stdin,
                   stdin_pos, stdout, call>>
    /\ UNCHANGED histVars

\* read_rulebase: the file ends before the rulebase does
ReadRulebaseEOF ==
    /\ pc = "read_rulebase"
    /\ pos = Len(file)
    /\ error("Expected ::=, got EOF", lineno)
    /\ UNCHANGED <<readable, file, pos, lineno, rulebase, init_str, string,
                   is_verbose, stdin, stdin_pos, stdout, call>>
    /\ UNCHANGED histVars

\* read_program: one iteration of the loop that reads the initial string
ReadInitLine ==
    /\ pc = "read_init"
    /\ pos < Len(file)
    /\ pos' = pos + 1
    /\ init_str' = init_str \o rstrip(file[pos + 1])
    /\ UNCHANGED <<pc, readable, file, lineno, rulebase, string, is_verbose,
                   stdin, stdin_pos, stdout, stderr, exit_code, call>>
    /\ UNCHANGED histVars

\* read_program returns; the main program calls execute
ReadInitEOF ==
    /\ pc = "read_init"
    /\ pos = Len(file)
    /\ pc' = "execute"
    /\ string' = init_str
    /\ init_string' = init_str
    /\ UNCHANGED <<readable, file, pos, lineno, rulebase, init_str,
                   is_verbose, stdin, stdin_pos, stdout, stderr, exit_code,
                   steps, last, n_input, emitted, run, call>>

-----------------------------------------------------------------------------
(* execute, called with a rulebase and a string *)

Alphabet == {"a", "b"}

Strings(n) == UNION {[1..k -> Alphabet] : k \in 0..n}

RuleSet ==
    { Rule(<<"a">>, <<>>),
      Rule(<<"a", "a">>, <<"b">>),
      Rule(<<"b">>, <<"a", "b">>),
      Rule(<<"b">>, <<":", ":", ":">>),
      Rule(<<"a">>, <<"~", "b">>) }

RuleBases == UNION {[1..k -> RuleSet] : k \in 0..MaxRules}

InputLines == {<<"b", "\n">>}

Stdins == UNION {[1..k -> InputLines] : k \in 0..MaxInput}

Banana == <<"b", "a", "n", "a", "n", "a">>

\* Further calls of execute: the runs the documentation gives as examples,
\* right-hand sides at the edges of apply's tests, two lines of input,
\* two rules that print
Scenarios ==
    { [rulebase |-> <<Rule(<<"a", "b">>, <<"b", "a">>)>>,
       string |-> <<"x", "a", "b", "y">>, stdin |-> <<>>],
      [rulebase |-> <<Rule(<<"A">>, <<"~", "h", "e", "l", "l", "o">>)>>,
       string |-> <<"x", "A", "y">>, stdin |-> <<>>],
      [rulebase |-> <<Rule(<<"B">>, <<":", ":", ":">>)>>,
       string |-> <<"x", "B", "y">>, stdin |-> <<<<"Q", "\n">>>>],
      [rulebase |-> <<Rule(<<"a">>, <<>>)>>,
       string |-> Banana, stdin |-> <<>>],
      [rulebase |-> <<Rule(<<"a">>, <<"~">>)>>,
       string |-> <<"x", "a">>, stdin |-> <<>>],
      [rulebase |-> <<Rule(<<"b">>, <<"~", ":", ":", ":">>)>>,
       string |-> <<"b", "x">>, stdin |-> <<<<"Q", "\n">>>>],
      [rulebase |-> <<Rule(<<"B">>, <<":", ":", ":">>),
                      Rule(<<"A">>, <<"~", "h", "i">>)>>,
       string |-> <<"B", "A", "B">>,
       stdin |-> <<<<"Q", "\n">>, <<"R", "\n">>>>],
      [rulebase |-> <<Rule(<<"A">>, <<"~", "h", "i">>),
                      Rule(<<"B">>, <<"~", "y", "o">>)>>,
       string |-> <<"A", "B">>, stdin |-> <<>>] }

ExecInputs ==
    [rulebase : RuleBases, string : Strings(MaxLen), stdin : Stdins]
        \cup Scenarios

NoCall == [op |-> "none"]

InitExec ==
    /\ pc = "execute"
    /\ \E x \in ExecInputs :
        /\ rulebase = x.rulebase
        /\ string = x.string
        /\ init_string = x.string
        /\ stdin = x.stdin
    /\ is_verbose \in BOOLEAN
    /\ stdin_pos = 0
    /\ stdout = <<>>
    /\ stderr = <<>>
    /\ exit_code = -1
    /\ steps = 0
    /\ last = NoLast
    /\ n_input = 0
    /\ emitted = <<>>
    /\ run = 1
    /\ readable = TRUE
    /\ file = <<>>
    /\ pos = 0
    /\ lineno = 1
    /\ init_str = <<>>
    /\ call = NoCall

NextExec ==
    \/ ExecuteStep
    \/ ExecuteHalt
    \/ Reexecute

SpecExec == InitExec /\ [][NextExec]_vars

-----------------------------------------------------------------------------
(* The program, run on a file *)

LineSet ==
    { <<"\n">>,
      <<" ", "\n">>,
      <<"a", ":", ":", "=", "\n">>,
      <<"a", ":", ":", "=", ":", ":", ":", "\n">>,
      <<"a", ":", ":", "=", "~", "b", " ", "\n">>,
      <<":", ":", "=", "\n">>,
      <<":", ":", "=", "b", "\n">>,
      <<":", ":", "=", "a", ":", ":", "=", "b", "\n">>,
      <<" ", "a", " ", "\n">> }

Files == UNION {[1..k -> LineSet] : k \in 0..MaxLines}

Init ==
    /\ pc = "read_program"
    /\ \/ readable = TRUE /\ file \in Files
       \/ readable = FALSE /\ file = <<>>
    /\ stdin \in Stdins
    /\ is_verbose \in BOOLEAN
    /\ pos = 0
    /\ lineno = 1
    /\ rulebase = <<>>
    /\ init_str = <<>>
    /\ string = <<>>
    /\ init_string = <<>>
    /\ stdin_pos = 0
    /\ stdout = <<>>
    /\ stderr = <<>>
    /\ exit_code = -1
    /\ steps = 0
    /\ last = NoLast
    /\ n_input = 0
    /\ emitted = <<>>
    /\ run = 1
    /\ call = NoCall

Next ==
    \/ OpenFile
    \/ ReadRulebaseLine
    \/ ReadRulebaseEOF
    \/ ReadInitLine
    \/ ReadInitEOF
    \/ ExecuteStep
    \/ ExecuteHalt

Spec == Init /\ [][Next]_vars

-----------------------------------------------------------------------------
(* Single calls of the functions *)

RhsSet ==
    { <<>>, <<"b">>, <<"a", "b">>, <<"b", "a">>, <<":", ":", ":">>,
      <<"~">>, <<"~", "b">>, <<"~", ":", ":", ":">> }

\* Rule(lhs, rhs) about to run
RuleCalls ==
    { [op |-> "Rule", lhs |-> lhs, rhs |-> rhs, state |-> "called",
       result |-> Rule(<<>>, <<>>), raised |-> "none"] :
      lhs \in Strings(MaxPat), rhs \in RhsSet }

FnRuleSet ==
    { Rule(<<"a">>, <<>>),
      Rule(<<"a">>, <<"b">>),
      Rule(<<"A">>, <<"b">>),
      Rule(<<"a", "a">>, <<"b">>),
      Rule(<<"a", "b">>, <<"b", "a">>),
      Rule(<<".">>, <<"a">>) }

\* applicable_rules(rulebase, s) about to run
ApplicableRulesCalls ==
    { [op |-> "applicable_rules", rulebase |-> rb, s |-> s,
       state |-> "called", result |-> <<>>] :
      rb \in UNION {[1..k -> FnRuleSet] : k \in 0..MaxRules},
      s \in Strings(MaxFnLen) }

\* find_occurences(s, substr) at the head of its loop: arg_s is the s it
\* was called with, s the local s, iters the iterations done
FindOccurencesCalls ==
    { [op |-> "find_occurences", arg_s |-> s, substr |-> substr,
       state |-> "loop", s |-> s, offset |-> 0, occurences |-> <<>>,
       iters |-> 0] :
      s \in Strings(MaxFnLen), substr \in Strings(MaxPat) }

InitFn ==
    /\ pc = "call"
    /\ call \in RuleCalls \cup ApplicableRulesCalls \cup FindOccurencesCalls
    /\ readable = TRUE
    /\ file = <<>>
    /\ stdin = <<>>
    /\ is_verbose = FALSE
    /\ pos = 0
    /\ lineno = 1
    /\ rulebase = <<>>
    /\ init_str = <<>>
    /\ string = <<>>
    /\ init_string = <<>>
    /\ stdin_pos = 0
    /\ stdout = <<>>
    /\ stderr = <<>>
    /\ exit_code = -1
    /\ steps = 0
    /\ last = NoLast
    /\ n_input = 0
    /\ emitted = <<>>
    /\ run = 1

\* Rule(lhs, rhs): __init__ has no test and raises nothing
CallRule ==
    /\ pc = "call"
    /\ call.op = "Rule"
    /\ call.state = "called"
    /\ call' = [call EXCEPT !.state = "returned",
                            !.result = Rule(call.lhs, call.rhs),
                            !.raised = "none"]
    /\ UNCHANGED <<pc, rulebase, string, is_verbose, stdin, stdin_pos,
                   stdout, stderr, exit_code>>
    /\ UNCHANGED loadVars
    /\ UNCHANGED histVars

\* applicable_rules(rulebase, s)
CallApplicableRules ==
    /\ pc = "call"
    /\ call.op = "applicable_rules"
    /\ call.state = "called"
    /\ call' = [call EXCEPT !.state = "returned",
                            !.result = applicable_rules(call.rulebase, call.s)]
    /\ UNCHANGED <<pc, rulebase, string, is_verbose, stdin, stdin_pos,
                   stdout, stderr, exit_code>>
    /\ UNCHANGED loadVars
    /\ UNCHANGED histVars

\* A loop body that steps one character on instead of past the occurrence
find_occurences_body_StepOne(c) ==
    LET i == find(c.s, c.substr) IN
    [c EXCEPT !.occurences = Append(c.occurences, i + c.offset),
              !.s = Slice(c.s, i + 1, Len(c.s)),
              !.offset = c.offset + i + 1,
              !.iters = c.iters + 1]

\* A loop body that leaves s as it is
find_occurences_body_KeepS(c) ==
    LET i == find(c.s, c.substr) IN
    [c EXCEPT !.occurences = Append(c.occurences, i + c.offset),
              !.offset = c.offset + i + Len(c.substr),
              !.iters = c.iters + 1]

\* The body of find_occurences's loop
find_occurences_body(c) ==
    LET i == find(c.s, c.substr) IN
    [c EXCEPT !.occurences = Append(c.occurences, i + c.offset),
              !.s = Slice(c.s, i + Len(c.substr), Len(c.s)),
              !.offset = c.offset + i + Len(c.substr),
              !.iters = c.iters + 1]

\* find_occurences: the loop condition holds, one iteration
FindOccurencesIter ==
    /\ pc = "call"
    /\ call.op = "find_occurences"
    /\ call.state = "loop"
    /\ call.iters < MaxIter
    /\ find(call.s, call.substr) # -1
    /\ call' = find_occurences_body(call)
    /\ UNCHANGED <<pc, rulebase, string, is_verbose, stdin, stdin_pos,
                   stdout, stderr, exit_code>>
    /\ UNCHANGED loadVars
    /\ UNCHANGED histVars

\* find_occurences: the loop condition fails, return occurences
FindOccurencesReturn ==
    /\ pc = "call"
    /\ call.op = "find_occurences"
    /\ call.state = "loop"
    /\ find(call.s, call.substr) = -1
    /\ call' = [call EXCEPT !.state = "returned"]
    /\ UNCHANGED <<pc, rulebase, string, is_verbose, stdin, stdin_pos,
                   stdout, stderr, exit_code>>
    /\ UNCHANGED loadVars
    /\ UNCHANGED histVars

NextFn ==
    \/ CallRule
    \/ CallApplicableRules
    \/ FindOccurencesIter
    \/ FindOccurencesReturn

SpecFn == InitFn /\ [][NextFn]_vars

-----------------------------------------------------------------------------
(* What the properties below are stated with *)

\* p is a contiguous part of s
Occurs(p, s) ==
    \E k \in 1..(Len(s) - Len(p) + 1) : SubSeq(s, k, k + Len(p) - 1) = p

SomeRuleOccurs(rb, s) == \E k \in 1..Len(rb) : Occurs(rb[k].lhs, s)

\* s[0,o) + t + s[o+len(p), len(s))
Splice(s, o, p, t) ==
    SubSeq(s, 1, o) \o t \o SubSeq(s, o + Len(p) + 1, Len(s))

\* The three directives, by the text of the right-hand side
Directive(rhs) ==
    IF rhs = <<":", ":", ":">> THEN "ReadInput"
    ELSE IF rhs # <<>> /\ rhs[1] = "~" THEN "WriteOutput"
    ELSE "Substitute"

\* The texts written by rule applications, in order
RuleWrites(out) ==
    LET w == SelectSeq(out, LAMBDA x : x.op = "rule")
    IN [k \in 1..Len(w) |-> w[k].text]

FinalWrites(out) == SelectSeq(out, LAMBDA x : x.op = "final")

TraceWrites(out) == SelectSeq(out, LAMBDA x : x.op = "trace")

WithoutNewline(line) == SelectSeq(line, LAMBDA c : c # "\n")

\* An application of a rule has completed and none was tried after it
Applied == steps > 0 /\ pc # "aborted"

-----------------------------------------------------------------------------
(* Properties of execute and apply *)

\* C1: execute stops rewriting exactly when no rule's lhs occurs in the
\* current string: the final string it prints holds no rule's lhs, it cannot
\* print the final string while some lhs occurs, and when none occurs it
\* prints the final string and applies no rule.
C1_HaltsExactlyWhenNoRuleOccurs ==
    /\ pc = "done" =>
        /\ ~SomeRuleOccurs(rulebase, string)
        /\ FinalWrites(stdout) = <<Write("final", string)>>
        /\ stdout[Len(stdout)] = Write("final", string)
    /\ (pc = "execute" /\ SomeRuleOccurs(rulebase, string)) =>
        ~ENABLED ExecuteHalt
    /\ (pc = "execute" /\ ~SomeRuleOccurs(rulebase, string)) =>
        (ENABLED ExecuteHalt /\ ~ENABLED ExecuteStep)

\* A run that applied rules and then halted
C1_Witness ==
    /\ pc = "done"
    /\ steps = 2
    /\ Len(rulebase) = 2

\* C2: a Substitute rule applied at offset o of s yields
\* s[0,o) + t + s[o+len(p), len(s)), reads no input and writes no output.
C2_SubstituteSplices ==
    (Applied /\ Directive(last.rule.rhs) = "Substitute") =>
        /\ string = Splice(last.before, last.i, last.rule.lhs, last.rule.rhs)
        /\ stdin_pos = last.stdin_pos
        /\ RuleWrites(stdout) = RuleWrites(last.stdout)

\* ab ::= ba on "xaby" at offset 1 yields "xbay"
C2_Witness ==
    /\ Applied
    /\ last.rule = Rule(<<"a", "b">>, <<"b", "a">>)
    /\ last.before = <<"x", "a", "b", "y">>
    /\ last.i = 1
    /\ string = <<"x", "b", "a", "y">>

\* C3: a WriteOutput rule applied at offset o of s yields
\* s[0,o) + s[o+len(p), len(s)) and writes the rhs without its leading "~"
\* to standard output, once; it reads no input.
C3_OutputDeletesAndEmits ==
    (Applied /\ Directive(last.rule.rhs) = "WriteOutput") =>
        /\ string = Splice(last.before, last.i, last.rule.lhs, <<>>)
        /\ RuleWrites(stdout) =
              Append(RuleWrites(last.stdout),
                     SubSeq(last.rule.rhs, 2, Len(last.rule.rhs)))
        /\ stdin_pos = last.stdin_pos

\* A ::= ~hello on "xAy" emits hello and yields "xy"
C3_Witness ==
    /\ Applied
    /\ last.rule.lhs = <<"A">>
    /\ last.before = <<"x", "A", "y">>
    /\ string = <<"x", "y">>
    /\ RuleWrites(stdout) = << <<"h", "e", "l", "l", "o">> >>

\* C4: the k-th application of a ReadInput rule puts the k-th line of
\* standard input, without its line end, in place of the occurrence and
\* consumes that one line; other applications consume no input.
C4_InputLinesInOrder ==
    /\ stdin_pos = n_input
    /\ (Applied /\ Directive(last.rule.rhs) = "ReadInput") =>
        /\ n_input >= 1
        /\ n_input <= Len(stdin)
        /\ string = Splice(last.before, last.i, last.rule.lhs,
                           WithoutNewline(stdin[n_input]))
        /\ stdin_pos = last.stdin_pos + 1
    /\ (Applied /\ Directive(last.rule.rhs) # "ReadInput") =>
        stdin_pos = last.stdin_pos

\* On "BAB" with input lines Q, R the second application received R
C4_Witness ==
    /\ Applied
    /\ n_input = 2
    /\ last.rule.rhs = <<":", ":", ":">>
    /\ last.i = 0
    /\ string = <<"R", "A", "Q">>

\* C5: a ReadInput rule applied with standard input exhausted aborts the
\* run: the string is not rewritten, no further step is possible, no final
\* string is printed, and what output rules wrote before stays written.
C5_EndOfInputAborts ==
    /\ (last.rule.rhs = <<":", ":", ":">> /\ last.stdin_pos >= Len(stdin)) =>
        /\ pc = "aborted"
        /\ string = last.before
    /\ pc = "aborted" =>
        /\ last.rule.rhs = <<":", ":", ":">>
        /\ last.stdin_pos >= Len(stdin)
        /\ ~ENABLED NextExec
        /\ FinalWrites(stdout) = <<>>
        /\ RuleWrites(stdout) = emitted
        /\ RuleWrites(stdout) = RuleWrites(last.stdout)
        /\ exit_code = 1

\* An abort after an output rule has written
C5_Witness ==
    /\ pc = "aborted"
    /\ RuleWrites(stdout) # <<>>
    /\ stdin # <<>>

\* C6: what an application does is decided by the rhs text alone: ":::"
\* reads input; otherwise a rhs starting with "~" writes the rest of the rhs
\* and deletes the occurrence; otherwise the rhs replaces the occurrence.
\* Each application does exactly one of the three.
C6_DirectiveByRhs ==
    Applied =>
        LET rhs == last.rule.rhs
            read == stdin_pos - last.stdin_pos
            wrote == SubSeq(RuleWrites(stdout),
                            Len(RuleWrites(last.stdout)) + 1,
                            Len(RuleWrites(stdout)))
            spliced(t) == string = Splice(last.before, last.i,
                                          last.rule.lhs, t)
        IN CASE rhs = <<":", ":", ":">> ->
                  /\ read = 1
                  /\ wrote = <<>>
                  /\ spliced(WithoutNewline(stdin[stdin_pos]))
             [] rhs # <<":", ":", ":">> /\ rhs # <<>> /\ rhs[1] = "~" ->
                  /\ read = 0
                  /\ wrote = <<Tail(rhs)>>
                  /\ spliced(<<>>)
             [] OTHER ->
                  /\ read = 0
                  /\ wrote = <<>>
                  /\ spliced(rhs)

\* rhs "~:::" wrote ":::" and read nothing although input was there
C6_Witness ==
    /\ Applied
    /\ last.rule.rhs = <<"~", ":", ":", ":">>
    /\ RuleWrites(stdout) = << <<":", ":", ":">> >>
    /\ stdin_pos = 0
    /\ Len(stdin) = 1
    /\ string = <<"x">>

\* Every rule is a Substitute rule whose rhs is shorter than its lhs
AllShrinking(rb) ==
    \A k \in 1..Len(rb) :
        /\ Directive(rb[k].rhs) = "Substitute"
        /\ Len(rb[k].rhs) < Len(rb[k].lhs)

\* C8: with only Substitute rules whose rhs is shorter than their lhs a run
\* applies at most len(initial string) rules and never stops short of the
\* end; a ::= (empty) on "banana" ends with "bnn".
C8_ShrinkingRulesTerminate ==
    AllShrinking(rulebase) =>
        /\ steps <= Len(init_string)
        /\ Len(string) <= Len(init_string) - steps
        /\ pc \in {"execute", "done"}
        /\ pc = "execute" => ENABLED (ExecuteStep \/ ExecuteHalt)
        /\ (pc = "done" /\ rulebase = <<Rule(<<"a">>, <<>>)>>
                /\ init_string = Banana) => string = <<"b", "n", "n">>

C8_Witness ==
    /\ pc = "done"
    /\ run = 1
    /\ init_string = Banana
    /\ string = <<"b", "n", "n">>
    /\ steps = 3

\* C9: execute called on a string in which no rule's lhs occurs applies no
\* rule, reads no input, writes only the final string, which is that
\* string; so does execute called again on the final string of a run.
C9_HaltedStateIsIdempotent ==
    /\ (pc = "done" /\ ~SomeRuleOccurs(rulebase, init_string)) =>
        /\ steps = 0
        /\ string = init_string
        /\ stdin_pos = 0
        /\ stdout = <<Write("final", init_string)>>
    /\ (pc = "done" /\ run > 1) =>
        /\ steps = 0
        /\ string = init_string
        /\ stdin_pos = 0
        /\ stdout = <<Write("final", init_string)>>

\* execute called again, with tracing, on the final string "bnn"
C9_Witness ==
    /\ pc = "done"
    /\ run = 2
    /\ is_verbose
    /\ string = <<"b", "n", "n">>

-----------------------------------------------------------------------------
(* Properties of Rule and of the loader *)

\* C7: constructing a rule with an empty left-hand side fails with
\* MalformedRuleError instead of producing a Rule object.
C7_EmptyLhsRejected ==
    (call.op = "Rule" /\ call.state = "returned" /\ call.lhs = <<>>) =>
        call.raised = "MalformedRuleError"

StartsWithSep(line) ==
    Len(line) >= Len(Sep) /\ SubSeq(line, 1, Len(Sep)) = Sep

SepAfterStart(line) ==
    \E k \in 2..(Len(line) - Len(Sep) + 1) :
        SubSeq(line, k, k + Len(Sep) - 1) = Sep

Blank(line) == \A k \in 1..Len(line) : line[k] \in Whitespace

\* The number of the first line of the file that P holds of, 0 if none
FirstLine(P(_)) ==
    IF \E k \in 1..Len(file) : P(file[k])
    THEN CHOOSE k \in 1..Len(file) :
            P(file[k]) /\ \A j \in 1..(k - 1) : ~P(file[j])
    ELSE 0

\* Lines from..to of the file, each without its trailing whitespace, joined
RECURSIVE JoinLines(_, _)
JoinLines(from, to) ==
    IF from > to THEN <<>>
    ELSE rstrip(file[from]) \o JoinLines(from + 1, to)

Loaded == pc \in {"read_init", "execute", "done", "aborted"}

\* The rulebase ended at line T: the non-blank lines before it are the
\* rules, line T gave no rule and no text, the lines after it are the
\* initial string.
RulebaseEndsAt(T) ==
    /\ T >= 1
    /\ pos >= T
    /\ Len(rulebase) = Cardinality({k \in 1..(T - 1) : ~Blank(file[k])})
    /\ init_str = JoinLines(T + 1, pos)
    /\ pc # "read_init" =>
        /\ pos = Len(file)
        /\ init_string = JoinLines(T + 1, Len(file))

\* C10 as amended: read_rulebase ends the rulebase at the first line that
\* starts with "::=" and has no further "::=" after that (the first
\* non-blank line whose text before its last "::=" is empty); that line is
\* not stored as a rule, what follows its "::=" is discarded, and all
\* following lines belong to the initial string.
C10_TerminatorHasNoLaterSep ==
    Loaded =>
        RulebaseEndsAt(FirstLine(LAMBDA l : StartsWithSep(l) /\ ~SepAfterStart(l)))

\* C10 as stated: the rulebase ends at the first line that starts with
\* "::=", whatever follows on its right.
C10_TerminatorIsAnyLineStartingWithSep ==
    Loaded => RulebaseEndsAt(FirstLine(StartsWithSep))

\* "::=a::=b" was stored as a rule, "::=b" ended the rulebase, " a " is the
\* initial string
C10_Witness ==
    /\ pc = "execute"
    /\ file = << <<":", ":", "=", "a", ":", ":", "=", "b", "\n">>,
                 <<":", ":", "=", "b", "\n">>,
                 <<" ", "a", " ", "\n">> >>
    /\ rulebase = <<Rule(<<":", ":", "=", "a">>, <<"b">>)>>
    /\ string = <<" ", "a">>

-----------------------------------------------------------------------------
(* Properties of applicable_rules and find_occurences *)

\* C13: applicable_rules(rulebase, s) returns exactly the rules whose lhs
\* occurs in s as a literal, case-sensitive substring, in rulebase order,
\* equal rules each kept; it is empty exactly when no rule's lhs occurs.
C13_ApplicableRulesExact ==
    (call.op = "applicable_rules" /\ call.state = "returned") =>
        /\ call.result =
              SelectSeq(call.rulebase, LAMBDA r : Occurs(r.lhs, call.s))
        /\ (call.result = <<>>) <=> ~SomeRuleOccurs(call.rulebase, call.s)

\* Both of two equal rules a ::= are returned for "ba"
C13_Witness ==
    /\ call.op = "applicable_rules"
    /\ call.state = "returned"
    /\ call.s = <<"b", "a">>
    /\ call.rulebase = <<Rule(<<"a">>, <<>>), Rule(<<"a">>, <<>>)>>
    /\ call.result = <<Rule(<<"a">>, <<>>), Rule(<<"a">>, <<>>)>>

\* The least 0-based offset >= m at which p is in s, -1 if there is none
LeastOccurrenceFrom(s, p, m) ==
    LET occ == {k \in m..(Len(s) - Len(p)) : SubSeq(s, k + 1, k + Len(p)) = p}
    IN IF occ = {} THEN -1 ELSE CHOOSE k \in occ : \A j \in occ : k <= j

\* C14: for a non-empty pattern find_occurences returns the greedy
\* non-overlapping occurrences from left to right: the first is the leftmost
\* occurrence, each next one the leftmost that starts at or after the end of
\* the one before, and none is left after the last.
C14_GreedyNonOverlappingOccurrences ==
    (call.op = "find_occurences" /\ call.state = "returned"
        /\ call.substr # <<>>) =>
        LET o == call.occurences
            s == call.arg_s
            p == call.substr
            from(j) == IF j = 1 THEN 0 ELSE o[j - 1] + Len(p)
        IN /\ \A j \in 1..Len(o) :
                /\ o[j] = LeastOccurrenceFrom(s, p, from(j))
                /\ o[j] >= 0
                /\ SubSeq(s, o[j] + 1, o[j] + Len(p)) = p
                /\ j > 1 => o[j] >= o[j - 1] + Len(p)
           /\ LeastOccurrenceFrom(s, p, from(Len(o) + 1)) = -1
           /\ find_occurences(s, p) = o

\* "aa" in "aaaa" gives [0, 2]
C14_Witness ==
    /\ call.op = "find_occurences"
    /\ call.state = "returned"
    /\ call.arg_s = <<"a", "a", "a", "a">>
    /\ call.substr = <<"a", "a">>
    /\ call.occurences = <<0, 2>>

\* C19: for a non-empty pattern the loop of find_occurences runs at most
\* floor(len(s) / len(p)) times, each iteration shortening the remaining
\* string by at least len(p), and then returns; with an empty pattern the
\* loop condition holds for ever and the remaining string never shrinks.
C19_LoopIterationsBounded ==
    call.op = "find_occurences" =>
        IF call.substr # <<>>
        THEN /\ call.iters <= Len(call.arg_s) \div Len(call.substr)
             /\ Len(call.s) <= Len(call.arg_s) - call.iters * Len(call.substr)
             /\ call.state = "loop" =>
                    ENABLED (FindOccurencesIter \/ FindOccurencesReturn)
        ELSE /\ call.state = "loop"
             /\ call.s = call.arg_s
             /\ find(call.s, call.substr) = 0
             /\ call.occurences = [k \in 1..call.iters |-> 0]

\* "ab" in "abab": two iterations, the bound, and the loop is left
C19_Witness ==
    /\ call.op = "find_occurences"
    /\ call.state = "returned"
    /\ call.arg_s = <<"a", "b", "a", "b">>
    /\ call.substr = <<"a", "b">>
    /\ call.iters = 2

-----------------------------------------------------------------------------
(* Properties of read_program and read_rulebase *)

\* A non-blank line that holds no "::="
Malformed(line) == ~Blank(line) /\ ~Occurs(Sep, line)

\* The line that ends the rulebase
Terminator(line) == StartsWithSep(line) /\ ~SepAfterStart(line)

\* C11: blank lines before the terminator are skipped; the first non-blank
\* line before the terminator that holds no "::=" ends the load with an
\* error that carries its 1-based number in the file, blank lines counted;
\* the end of the file before a terminator ends the load with an error too.
\* In both cases the exit status is 1, no rule is applied and nothing is
\* written to standard output.
C11_MalformedRulebaseAborts ==
    readable =>
        LET D == FirstLine(Malformed)
            T == FirstLine(Terminator)
            bad == D # 0 /\ (T = 0 \/ D < T)
            eof == D = 0 /\ T = 0
        IN /\ (bad /\ pos >= D) =>
                /\ pc = "error"
                /\ pos = D
                /\ stderr = <<[msg |-> "Expected <lhs> ::= <rhs>",
                               lineno |-> D]>>
           /\ (eof /\ pc \notin {"read_program", "read_rulebase"}) =>
                /\ pc = "error"
                /\ Len(stderr) = 1
                /\ stderr[1].msg = "Expected ::=, got EOF"
           /\ pc = "error" =>
                /\ bad \/ eof
                /\ exit_code = 1
                /\ stdout = <<>>
                /\ steps = 0
                /\ last = NoLast
           /\ (bad \/ eof) => pc \in {"read_program", "read_rulebase", "error"}
           /\ (pc = "read_rulebase" /\ ~bad) =>
                Len(rulebase) =
                    Cardinality({k \in 1..pos : ~Blank(file[k])})

\* A blank line, a rule and then " a ": the error names line 3
C11_Witness ==
    /\ pc = "error"
    /\ Len(file) = 3
    /\ Blank(file[1])
    /\ file[2] = <<"a", ":", ":", "=", "\n">>
    /\ Malformed(file[3])
    /\ stderr = <<[msg |-> "Expected <lhs> ::= <rhs>", lineno |-> 3]>>
    /\ exit_code = 1
    /\ stdout = <<>>

\* Lines from..to of the file, each without its newline, joined
RECURSIVE JoinVerbatim(_, _)
JoinVerbatim(from, to) ==
    IF from > to THEN <<>>
    ELSE WithoutNewline(file[from]) \o JoinVerbatim(from + 1, to)

\* C12: the initial string is the concatenation, in file order, of the lines
\* after the terminator with only their newlines removed, leading and
\* trailing spaces kept; with no such line it is the empty string.
C12_InitialStringVerbatim ==
    pc \in {"execute", "done", "aborted"} =>
        init_string = JoinVerbatim(FirstLine(Terminator) + 1, Len(file))

\* C16: every rule of the rulebase read_rulebase builds has a non-empty lhs,
\* so no rule that execute hands to applicable_rules, find_occurences or
\* apply has an empty pattern.
C16_StoredRulesHaveNonEmptyLhs ==
    /\ \A k \in 1..Len(rulebase) : rulebase[k].lhs # <<>>
    /\ steps > 0 =>
        /\ last.rule.lhs # <<>>
        /\ \E k \in 1..Len(rulebase) : rulebase[k] = last.rule

\* A program was loaded with a rule after lines starting with "::=" were
\* read, and the rule was applied
C16_Witness ==
    /\ readable
    /\ pc = "done"
    /\ steps > 0
    /\ Len(rulebase) = 1
    /\ \E k \in 1..Len(file) : StartsWithSep(file[k])

\* The line of the file that the j-th rule was read from
RuleLine(j) ==
    CHOOSE k \in 1..Len(file) :
        /\ ~Blank(file[k])
        /\ Cardinality({i \in 1..k : ~Blank(file[i])}) = j

\* C20: a rule line is split at its last "::=": lhs is all before it, rhs
\* all after it, so a stored rhs holds no "::="; the trailing whitespace of
\* the line is removed before the split, so a stored rhs never ends in
\* whitespace.
C20_RuleLineSplitAtLastSep ==
    \A j \in 1..Len(rulebase) :
        LET r == rulebase[j]
            line == file[RuleLine(j)]
            text == r.lhs \o Sep \o r.rhs
        IN /\ Len(text) <= Len(line)
           /\ SubSeq(line, 1, Len(text)) = text
           /\ Blank(SubSeq(line, Len(text) + 1, Len(line)))
           /\ ~Occurs(Sep, r.rhs)
           /\ r.rhs = <<>> \/ r.rhs[Len(r.rhs)] \notin Whitespace

\* "::=a::=b" gave the rule "::=a" ::= "b", "a::=~b " the rule a ::= "~b"
C20_Witness ==
    /\ Len(rulebase) = 2
    /\ rulebase[1] = Rule(<<":", ":", "=", "a">>, <<"b">>)
    /\ rulebase[2] = Rule(<<"a">>, <<"~", "b">>)
    /\ file[2] = <<"a", ":", ":", "=", "~", "b", " ", "\n">>

-----------------------------------------------------------------------------
(* Properties of execute's choices and of what it prints *)

\* C15: the test of applicable_rules and the list of find_occurences agree:
\* for a rule with a non-empty lhs the list is non-empty exactly when the
\* lhs occurs in the string; so the rule execute chooses has a non-empty
\* list in apply, the offset chosen is an occurrence, and random.choice
\* never gets an empty list.
C15_OccurrenceListNeverEmpty ==
    /\ \A k \in 1..Len(rulebase) :
          LET p == rulebase[k].lhs
              applicable == find(string, p) # -1
              occurs == Occurs(p, string)
          IN p # <<>> =>
              /\ applicable <=> occurs
              /\ (find_occurences(string, p) # <<>>) <=> occurs
    /\ \A k \in 1..Len(stderr) : stderr[k].msg # "IndexError"
    /\ last # NoLast =>
          SubSeq(last.before, last.i + 1, last.i + Len(last.rule.lhs))
              = last.rule.lhs

\* "a" is at 1, 3 and 5 in "banana"; the occurrence at 3 was chosen
C15_Witness ==
    /\ steps = 1
    /\ last.before = Banana
    /\ last.rule = Rule(<<"a">>, <<>>)
    /\ last.i = 3
    /\ find_occurences(last.before, last.rule.lhs) = <<1, 3, 5>>
    /\ string = <<"b", "a", "n", "n", "a">>

\* C17: the texts of the output rules applied are on standard output in the
\* order of the applications, each written and flushed within its own step,
\* so before the next step and before any later input; the final string is
\* written exactly once, after all of them.
C17_OutputInOrderAndFlushed ==
    /\ RuleWrites(stdout) = emitted
    /\ \A k \in 1..Len(stdout) : stdout[k].op = "rule" => stdout[k].flush
    /\ (Applied /\ IsOutput(last.rule) /\ pc = "execute") =>
          stdout[Len(stdout)] =
              [op |-> "rule", text |-> Tail(last.rule.rhs), flush |-> TRUE]
    /\ last # NoLast =>
          /\ Len(last.stdout) <= Len(stdout)
          /\ SubSeq(stdout, 1, Len(last.stdout)) = last.stdout
    /\ IF pc = "done"
       THEN /\ Len(FinalWrites(stdout)) = 1
            /\ stdout[Len(stdout)].op = "final"
            /\ stdout[Len(stdout)].text = string
       ELSE FinalWrites(stdout) = <<>>

\* "yo" was printed before "hi", and then the final string
C17_Witness ==
    /\ pc = "done"
    /\ ~is_verbose
    /\ emitted = <<<<"y", "o">>, <<"h", "i">>>>
    /\ stdout = <<[op |-> "rule", text |-> <<"y", "o">>, flush |-> TRUE],
                  [op |-> "rule", text |-> <<"h", "i">>, flush |-> TRUE],
                  [op |-> "final", text |-> <<>>, flush |-> FALSE]>>

\* In verbose mode n trace lines were printed; the last iteration printed
\* its trace line, the string before the step, before anything else; the
\* trace lines precede the final string. Without verbose mode there is no
\* trace line.
TraceLines(n) ==
    LET tr == TraceWrites(stdout) IN
    IF ~is_verbose THEN tr = <<>>
    ELSE /\ Len(tr) = n
         /\ last # NoLast =>
              LET own == IF Applied /\ IsOutput(last.rule)
                         THEN <<[op |-> "rule", text |-> Tail(last.rule.rhs),
                                 flush |-> TRUE]>>
                         ELSE <<>>
                  end == IF pc = "done"
                         THEN <<[op |-> "final", text |-> string,
                                 flush |-> FALSE]>>
                         ELSE <<>>
              IN stdout = last.stdout
                            \o <<[op |-> "trace", text |-> last.before,
                                  flush |-> FALSE]>>
                            \o own \o end
         /\ (pc = "done" /\ steps = 0) => tr = <<>>

\* C18 as amended: in verbose mode execute prints one trace line in every
\* iteration of its loop, showing the string before the step and printed
\* before the step's own input or output: one per applied step and one more
\* for the step that ends the run at the end of input; all of them precede
\* the final string, and a run that halts at once prints none.
C18_OneTraceLinePerIteration ==
    TraceLines(steps + (IF pc = "aborted" THEN 1 ELSE 0))

\* C18 as stated: a run with n applied steps prints exactly n trace lines.
C18_OneTraceLinePerAppliedStep ==
    TraceLines(steps)

\* One line was read, then the input ended: one step, two trace lines
C18_Witness ==
    /\ is_verbose
    /\ pc = "aborted"
    /\ steps = 1
    /\ Len(TraceWrites(stdout)) = 2
    /\ stdout[2].text = string

====
